---- MODULE Spec2Model ----
(***************************************************************************)
(* Model of fuzz-httpd's two helper scripts:                               *)
(*   structptrs.py   - the gdb command that walks a by-value aggregate and *)
(*                     reports every pointer field in it;                  *)
(*   run_valgrind.py - the batch driver that runs a program under valgrind *)
(*                     once per input file.                                *)
(* The recursion of _walk_value is an explicit stack of loop frames; the   *)
(* gdb type/value API is the environment: what a type looks like is part   *)
(* of the root value (tree); whether val[i] / val[f] can be read and       *)
(* whether t.fields() answers is decided by the environment on the first   *)
(* call and remembered (mem, api).                                         *)
(***************************************************************************)
EXTENDS Integers, Sequences, FiniteSets, TLC

\* ------------------------------------------------------------- bounds
MaxNodes == 3       \* type nodes in the root value's type tree
MaxLen == 2         \* elements t.range() reports for an array
MaxRuns == 2        \* runs of the walker on the same root value
MaxFaults == 1      \* sub-values of the root value that cannot be read
MaxFiles == 3       \* files in the batch driver's input folder

NoLength == 0 - 1   \* array_len's None

VARIABLES
    tree,       \* the root value's static type (with the by-value layout)
    rootFail,   \* gdb.parse_and_eval(expr) raises
    mem,        \* val[i] / val[f] decided so far: <<path, ok>>
    api,        \* t.fields() decided so far: <<path of the value, ok>>
    pc,         \* "idle", "walking", "done", "raised", "rejected"
    stack,      \* the for-loops of the active _walk_value calls, innermost last
    count,      \* StructPtrEnumerator.count
    out,        \* the lines gdb.write printed in this run
    calls,      \* the paths _walk_value was called with in this run
    runs,       \* runs started on this root value
    prev,       \* what the previous run printed and counted
    isdir,      \* os.path.isdir(input_folder)
    files,      \* what glob('*') lists: the regular files' names, in any order
    start_index,
    bpc,        \* the driver: "start", "loop", "exit0", "exit1"
    idx,        \* the driver's loop variable
    ran,        \* the inputs run so far, in order
    results     \* what each run returned

wvars == <<tree, rootFail, mem, api, pc, stack, count, out, calls, runs, prev>>
bvars == <<isdir, files, start_index, bpc, idx, ran, results>>
vars == <<tree, rootFail, mem, api, pc, stack, count, out, calls, runs, prev,
          isdir, files, start_index, bpc, idx, ran, results>>

\* ------------------------------------------------------------- types
Scalar == [kind |-> "scalar"]

\* what the pointers point at, a struct that holds a pointer itself; the walker
\* has no business there
Pointees ==
    {[kind |-> "struct",
      fields |-> << [type |-> [kind |-> "ptr", pointee |-> Scalar],
                     artificial |-> FALSE] >>]}

PtrTypes == {[kind |-> "ptr", pointee |-> p] : p \in Pointees}

\* <<t.sizeof, t.target().sizeof>> of an array whose range() raises
SizeofCases == {<<0, 2>>, <<5, 0>>, <<5, 2>>}

\* t.range() of an array: <<lo, hi>>, or <<>> when it raises
Ranges == {<<>>} \cup {<<0, h>> : h \in (0 - 1)..(MaxLen - 1)}

ArrayTypes(el) ==
    {[kind |-> "array", range |-> r, targetFail |-> FALSE,
      tsize |-> 0, esize |-> 0, el |-> el] : r \in Ranges \ {<<>>}}
    \cup {[kind |-> "array", range |-> <<>>, targetFail |-> TRUE,
           tsize |-> 0, esize |-> 0, el |-> el]}
    \cup {[kind |-> "array", range |-> <<>>, targetFail |-> FALSE,
           tsize |-> sz[1], esize |-> sz[2], el |-> el] : sz \in SizeofCases}

RECURSIVE TreesOf(_), FieldSeqs(_)
\* the types with exactly n nodes; a struct or union has a member at least
TreesOf(n) ==
    IF n = 1
    THEN PtrTypes \cup {Scalar}
    ELSE {[kind |-> k, fields |-> fs] :
             k \in {"struct", "union"}, fs \in FieldSeqs(n - 1)}
         \cup UNION {ArrayTypes(el) : el \in TreesOf(n - 1)}
         \cup {[kind |-> "typedef", stripFail |-> sf, target |-> t] :
                  sf \in BOOLEAN, t \in TreesOf(n - 1)}

\* the field lists with m nodes under them
FieldSeqs(m) ==
    IF m = 0 THEN {<<>>}
    ELSE UNION {{<<[type |-> t, artificial |-> a]>> \o rest :
                    t \in TreesOf(k), a \in BOOLEAN, rest \in FieldSeqs(m - k)} :
                k \in 1..m}

Trees == UNION {TreesOf(n) : n \in 1..MaxNodes}

\* ------------------------------------------------------------- helpers
RECURSIVE Resolve(_)
Resolve(t) == IF t.kind = "typedef" THEN Resolve(t.target) ELSE t

\* strip: t.strip_typedefs(), or t itself when that raises
strip(t) ==
    IF t.kind = "typedef"
    THEN IF t.stripFail THEN t ELSE Resolve(t.target)
    ELSE t

is_ptr(t) == strip(t).kind = "ptr"
is_struct(t) == strip(t).kind = "struct"
is_union(t) == strip(t).kind = "union"
is_array(t) == strip(t).kind = "array"

array_len(t0) ==
    LET t == strip(t0) IN
    IF t.range # <<>>
    THEN t.range[2] - t.range[1] + 1
    ELSE IF ~t.targetFail /\ t.esize > 0 /\ t.tsize > 0
         THEN t.tsize \div t.esize
         ELSE NoLength

\* ------------------------------------------------------------- output lines
PtrLine(path) == [kind |-> "ptr", path |-> path]            \* "<path> : <type> = <addr>"
UnknownLine(path) == [kind |-> "unknown", path |-> path]    \* "(length unknown; skipped)"
ElemLine(path) == [kind |-> "elem", path |-> path]          \* "<inaccessible element>"
FieldLine(path) == [kind |-> "field", path |-> path]        \* "<inaccessible>"
TotalLine(n) == [kind |-> "total", path |-> <<>>, n |-> n]  \* "Total pointer fields: n"

\* ------------------------------------------------------------- the walker
\* The walker's own state, as the operators below transform it.
Walker == [stack |-> stack, out |-> out, count |-> count, pc |-> pc, calls |-> calls]

Frame(t, path, first, n) == [val |-> t, path |-> path, i |-> first, n |-> n]

\* an exception nobody catches: every active call is unwound, run() prints no total
Raise(s) == [s EXCEPT !.stack = <<>>, !.pc = "raised"]

Write(s, line) == [s EXCEPT !.out = Append(@, line)]

\* the loop variable of the innermost loop moves on
Advance(s) == [s EXCEPT !.stack[Len(s.stack)].i = @ + 1]

_report_pointer(s, path) == [Write(s, PtrLine(path)) EXCEPT !.count = @ + 1]

\* mutant: the walker follows a pointer into the struct it points at
WalkPtrFollow(s, t, path) ==
    IF t.pointee.kind = "struct"
    THEN [_report_pointer(s, path) EXCEPT
            !.stack = Append(@, Frame(t.pointee, path, 1, Len(t.pointee.fields)))]
    ELSE _report_pointer(s, path)

\* lines 82-84
WalkPtr(s, t, path) == _report_pointer(s, path)

\* lines 87-99, up to the first iteration
WalkArray(s, t, path) ==
    IF array_len(t) = NoLength
    THEN IF t.targetFail
         THEN Raise(s)                      \* t.target() raises in the f-string
         ELSE Write(s, UnknownLine(path))
    ELSE [s EXCEPT !.stack = Append(@, Frame(t, path, 0, array_len(t)))]

\* lines 102-103 and 132-133: t.fields() is called outside any try
WalkFields(s, t, path, fok) ==
    IF ~fok
    THEN Raise(s)
    ELSE [s EXCEPT !.stack = Append(@, Frame(t, path, 1, Len(t.fields)))]

\* _walk_value, from its entry to the first iteration of its loop
_walk_value(s0, val, path, fok) ==
    LET t == strip(val)
        s == [s0 EXCEPT !.calls = Append(@, path)]
    IN  IF is_ptr(t) THEN WalkPtr(s, t, path)
        ELSE IF is_array(t) THEN WalkArray(s, t, path)
        ELSE IF is_struct(t) \/ is_union(t) THEN WalkFields(s, t, path, fok)
        ELSE s

\* mutant: an element that cannot be read ends the loop (break for continue)
ElementInaccessibleBreak(s, path) ==
    [Write(s, ElemLine(path)) EXCEPT !.stack = SubSeq(@, 1, Len(@) - 1)]

\* lines 93-97: val[i] raised
ElementInaccessible(s, path) == Advance(Write(s, ElemLine(path)))

\* mutant: a field that cannot be read is counted as a pointer
FieldInaccessibleCounted(s, path) ==
    [Advance(Write(s, FieldLine(path))) EXCEPT !.count = @ + 1]

\* lines 116-120 and 137-141: val[f] raised
FieldInaccessible(s, path) == Advance(Write(s, FieldLine(path)))

\* lines 122-128 and 143-148: what is done with a field that could be read
WalkField(s, f, path, fok) ==
    LET ftype == strip(f.type) IN
    IF is_ptr(ftype) THEN _report_pointer(s, path)
    ELSE IF is_array(ftype) \/ is_struct(ftype) \/ is_union(ftype)
         THEN _walk_value(s, f.type, path, fok)
         ELSE s

\* line 106: the struct loop skips the fields gdb marks artificial
SkipsArtificial(t, f) == t.kind = "struct" /\ f.artificial

Top == stack[Len(stack)]
\* mutant: the loops run from the last member to the first
CurDescending ==
    Top.path \o <<IF Top.val.kind = "array" THEN Top.n - 1 - Top.i ELSE Top.n + 1 - Top.i>>

\* the path of the member the innermost loop is at
Cur == Top.path \o <<Top.i>>

\* a loop that has no member left ends and its call returns to the loop that made it
Exhausted(fr) == IF fr.val.kind = "array" THEN fr.i >= fr.n ELSE fr.i > fr.n

RECURSIVE Return(_)
Return(s) ==
    IF s.stack # <<>> /\ Exhausted(s.stack[Len(s.stack)])
    THEN Return([s EXCEPT !.stack = SubSeq(@, 1, Len(@) - 1)])
    ELSE s

\* the walker's state after a step: the calls whose loops are over have returned
Set(s) ==
    LET r == Return(s) IN
    /\ stack' = r.stack
    /\ out' = r.out
    /\ count' = r.count
    /\ pc' = r.pc
    /\ calls' = r.calls

\* val[i], val[f]: the environment decides once whether a sub-value can be read
Materialise(path, ok) ==
    /\ \A m \in mem : m[1] = path => m[2] = ok
    /\ ok \/ Cardinality({m \in mem \cup {<<path, ok>>} : ~m[2]}) <= MaxFaults
    /\ mem' = mem \cup {<<path, ok>>}

\* t.fields(), where _walk_value gets as far as calling it on the value at path:
\* the environment decides once whether it answers
CallsFields(t) == is_struct(t) \/ is_union(t)
Decompose(path, t, fok) ==
    IF CallsFields(t)
    THEN /\ \A m \in api : m[1] = path => m[2] = fok
         /\ api' = api \cup {<<path, fok>>}
    ELSE fok /\ api' = api

\* lines 69-71: a new enumerator
__init__(s) == [s EXCEPT !.count = 0]

\* mutant: run() does not reset the count
runKeepCount(s, val, fok) ==
    _walk_value([s EXCEPT !.out = <<>>, !.calls = <<>>,
                          !.stack = <<>>, !.pc = "walking"], val, <<>>, fok)

\* lines 73-75: run() up to the first loop iteration
run(s, val, fok) ==
    _walk_value([s EXCEPT !.count = 0, !.out = <<>>, !.calls = <<>>,
                          !.stack = <<>>, !.pc = "walking"], val, <<>>, fok)

Remember == prev' = [out |-> out, count |-> count, pc |-> pc]

\* StructPtrsCommand.invoke: evaluate the expression, make an enumerator, run it
Invoke ==
    /\ pc \in {"idle", "done", "raised", "rejected"}
    /\ runs < MaxRuns
    /\ runs' = runs + 1
    /\ Remember
    /\ IF rootFail
       THEN /\ Set([Walker EXCEPT !.pc = "rejected", !.out = <<>>, !.calls = <<>>])
            /\ api' = api
       ELSE \E fok \in BOOLEAN :
               /\ Decompose(<<>>, tree, fok)
               /\ Set(run(__init__(Walker), tree, fok))
    /\ UNCHANGED <<tree, rootFail, mem>>

\* enum.run(val) once more on the enumerator of the previous run
RunAgain ==
    /\ pc \in {"done", "raised"}
    /\ runs < MaxRuns
    /\ runs' = runs + 1
    /\ Remember
    /\ \E fok \in BOOLEAN :
          /\ Decompose(<<>>, tree, fok)
          /\ Set(run(Walker, tree, fok))
    /\ UNCHANGED <<tree, rootFail, mem>>

\* one iteration of `for i in range(n)`
ArrayStep ==
    /\ pc = "walking" /\ stack # <<>>
    /\ Top.val.kind = "array" /\ Top.i < Top.n
    /\ \E ok \in BOOLEAN :
          /\ Materialise(Cur, ok)
          /\ IF ok
             THEN \E fok \in BOOLEAN :
                     /\ Decompose(Cur, Top.val.el, fok)
                     /\ Set(_walk_value(Advance(Walker), Top.val.el, Cur, fok))
             ELSE Set(ElementInaccessible(Walker, Cur)) /\ api' = api
    /\ UNCHANGED <<tree, rootFail, runs, prev>>

\* one iteration of `for f in t.fields()`, struct or union
FieldStep ==
    /\ pc = "walking" /\ stack # <<>>
    /\ Top.val.kind \in {"struct", "union"} /\ Top.i <= Top.n
    /\ LET f == Top.val.fields[Top.i] IN
       IF SkipsArtificial(Top.val, f)
       THEN Set(Advance(Walker)) /\ UNCHANGED <<mem, api>>
       ELSE \E ok \in BOOLEAN :
               /\ Materialise(Cur, ok)
               /\ IF ok
                  THEN \E fok \in BOOLEAN :
                          /\ Decompose(Cur, f.type, fok)
                          /\ Set(WalkField(Advance(Walker), f, Cur, fok))
                  ELSE Set(FieldInaccessible(Walker, Cur)) /\ api' = api
    /\ UNCHANGED <<tree, rootFail, runs, prev>>

\* line 76: _walk_value(val, root_name) returned
Total ==
    /\ pc = "walking" /\ stack = <<>>
    /\ out' = Append(out, TotalLine(count))
    /\ pc' = "done"
    /\ UNCHANGED <<tree, rootFail, mem, api, stack, count, calls, runs, prev>>

\* ------------------------------------------------------------- the batch driver
ErrorExitcode == 42     \* --error-exitcode=42

\* what subprocess.run does with one input: a return code, or an exception
Returned(code) == [kind |-> "returned", returncode |-> code]
TimeoutExpired == [kind |-> "TimeoutExpired", returncode |-> 0]
OtherException == [kind |-> "Exception", returncode |-> 0]
Outcomes == {Returned(0), Returned(1), Returned(ErrorExitcode), TimeoutExpired, OtherException}

RECURSIVE Insert(_, _)
Insert(x, sq) ==
    IF sq = <<>> THEN <<x>>
    ELSE IF x <= Head(sq) THEN <<x>> \o sq
    ELSE <<Head(sq)>> \o Insert(x, Tail(sq))

RECURSIVE sorted(_)
sorted(sq) == IF sq = <<>> THEN <<>> ELSE Insert(Head(sq), sorted(Tail(sq)))

\* line 43-44
input_files == sorted(files)

\* lines 37-56: the checks before the loop
Validate ==
    /\ bpc = "start"
    /\ IF \/ ~isdir
          \/ input_files = <<>>
          \/ start_index < 0
          \/ start_index >= Len(input_files)
       THEN bpc' = "exit1" /\ idx' = idx
       ELSE bpc' = "loop" /\ idx' = start_index
    /\ UNCHANGED <<isdir, files, start_index, ran, results>>

\* mutant: a valgrind error is reported and the loop goes on
AfterRunGoesOn(r) ==
    IF r.kind = "Exception" THEN "exit1" ELSE "loop"

\* what one input's outcome does to the loop (lines 101-129)
AfterRun(r) ==
    IF r.kind = "TimeoutExpired" THEN "loop"            \* continue
    ELSE IF r.kind = "Exception" THEN "exit1"
    ELSE IF r.returncode = ErrorExitcode THEN "exit1"
    ELSE "loop"

\* lines 80-129: one iteration of the loop
RunInput ==
    /\ bpc = "loop" /\ idx < Len(input_files)
    /\ \E r \in Outcomes :
          /\ ran' = Append(ran, input_files[idx + 1])
          /\ results' = Append(results, r)
          /\ bpc' = AfterRun(r)
          /\ idx' = IF AfterRun(r) = "loop" THEN idx + 1 ELSE idx
    /\ UNCHANGED <<isdir, files, start_index>>

\* lines 131-134
Success ==
    /\ bpc = "loop" /\ idx >= Len(input_files)
    /\ bpc' = "exit0"
    /\ UNCHANGED <<isdir, files, start_index, idx, ran, results>>

Perms(S) == {sq \in [1..Cardinality(S) -> S] : \A x \in S : \E i \in DOMAIN sq : sq[i] = x}

BatchIdle ==
    /\ isdir = FALSE /\ files = <<>> /\ start_index = 0 /\ bpc = "off" /\ idx = 0
    /\ ran = <<>> /\ results = <<>>

WalkerIdle ==
    /\ tree = Scalar /\ rootFail = FALSE /\ mem = {} /\ api = {} /\ pc = "off" /\ stack = <<>>
    /\ count = 0 /\ out = <<>> /\ calls = <<>> /\ runs = 0
    /\ prev = [out |-> <<>>, count |-> 0, pc |-> "off"]

InitBatch ==
    /\ isdir \in BOOLEAN
    /\ files \in UNION {Perms(S) : S \in SUBSET (1..MaxFiles)}
    /\ start_index \in (0 - 1)..MaxFiles
    /\ bpc = "start"
    /\ idx = 0
    /\ ran = <<>>
    /\ results = <<>>
    /\ WalkerIdle

NextBatch ==
    \/ Validate /\ UNCHANGED wvars
    \/ RunInput /\ UNCHANGED wvars
    \/ Success /\ UNCHANGED wvars

SpecBatch == InitBatch /\ [][NextBatch]_vars

Init ==
    /\ tree \in Trees
    /\ rootFail \in BOOLEAN
    /\ mem = {}
    /\ api = {}
    /\ pc = "idle"
    /\ stack = <<>>
    /\ count = 0
    /\ out = <<>>
    /\ calls = <<>>
    /\ runs = 0
    /\ prev = [out |-> <<>>, count |-> 0, pc |-> "idle"]
    /\ BatchIdle

Next ==
    \/ Invoke /\ UNCHANGED bvars
    \/ RunAgain /\ UNCHANGED bvars
    \/ ArrayStep /\ UNCHANGED bvars
    \/ FieldStep /\ UNCHANGED bvars
    \/ Total /\ UNCHANGED bvars

Spec == Init /\ [][Next]_vars

\* ------------------------------------------------------------- reading the state
Nowhere == [kind |-> "nowhere"]

\* the type of the sub-value at a path, going through elements and members only
RECURSIVE NodeAt(_, _)
NodeAt(t, p) ==
    IF p = <<>> THEN t
    ELSE LET s == strip(t) IN
         IF s.kind = "array"
         THEN IF Head(p) \in 0..(array_len(s) - 1)
              THEN NodeAt(s.el, Tail(p)) ELSE Nowhere
         ELSE IF s.kind \in {"struct", "union"}
         THEN IF Head(p) \in 1..Len(s.fields)
              THEN NodeAt(s.fields[Head(p)].type, Tail(p)) ELSE Nowhere
         ELSE Nowhere

TypeAt(p) == strip(NodeAt(tree, p))

Parent(p) == SubSeq(p, 1, Len(p) - 1)

IsPrefix(p, q) == Len(p) <= Len(q) /\ SubSeq(q, 1, Len(p)) = p
Below(p, q) == IsPrefix(p, q) /\ p # q          \* q is strictly inside p

\* depth-first pre-order of two paths: declaration order, ascending indices,
\* a node before what it contains
RECURSIVE Before(_, _)
Before(p, q) ==
    IF p = <<>> THEN q # <<>>
    ELSE IF q = <<>> THEN FALSE
    ELSE \/ Head(p) < Head(q)
         \/ Head(p) = Head(q) /\ Before(Tail(p), Tail(q))

Lines == {i \in DOMAIN out : out[i].kind # "total"}
LinesAt(p) == {i \in Lines : out[i].path = p}
PtrLines == {i \in DOMAIN out : out[i].kind = "ptr"}
Diagnostics == {i \in Lines : out[i].kind \in {"unknown", "elem", "field"}}
InWalk == pc \in {"walking", "done", "raised"}

Failed(p) == <<p, FALSE>> \in mem
Read(p) == <<p, TRUE>> \in mem

\* the pointer-typed leaves of a type: members of structs and unions that are
\* not compiler-synthetic, each element of an array of known length
RECURSIVE PtrLeaves(_)
RECURSIVE SumLeaves(_)
SumLeaves(fs) ==
    IF fs = <<>> THEN 0
    ELSE (IF Head(fs).artificial THEN 0 ELSE PtrLeaves(Head(fs).type))
         + SumLeaves(Tail(fs))
PtrLeaves(t0) ==
    LET t == Resolve(t0) IN
    IF t.kind = "ptr" THEN 1
    ELSE IF t.kind = "array"
         THEN IF array_len(t) = NoLength THEN 0 ELSE array_len(t) * PtrLeaves(t.el)
    ELSE IF t.kind \in {"struct", "union"} THEN SumLeaves(t.fields)
    ELSE 0

\* the same count, with the artificial members of unions counted as the walker
\* enumerates them
RECURSIVE LeavesAsWalked(_)
RECURSIVE SumAsWalked(_, _)
SumAsWalked(k, fs) ==
    IF fs = <<>> THEN 0
    ELSE (IF k = "struct" /\ Head(fs).artificial THEN 0 ELSE LeavesAsWalked(Head(fs).type))
         + SumAsWalked(k, Tail(fs))
LeavesAsWalked(t0) ==
    LET t == Resolve(t0) IN
    IF t.kind = "ptr" THEN 1
    ELSE IF t.kind = "array"
         THEN IF array_len(t) = NoLength THEN 0 ELSE array_len(t) * LeavesAsWalked(t.el)
    ELSE IF t.kind \in {"struct", "union"} THEN SumAsWalked(t.kind, t.fields)
    ELSE 0

\* no call of the type API raises anywhere in the type
RECURSIVE FaultFree(_)
FaultFree(t) ==
    IF t.kind = "typedef" THEN ~t.stripFail /\ FaultFree(t.target)
    ELSE IF t.kind = "array" THEN ~t.targetFail /\ FaultFree(t.el)
    ELSE IF t.kind \in {"struct", "union"}
         THEN \A i \in DOMAIN t.fields : FaultFree(t.fields[i].type)
    ELSE TRUE

AllAccessible == FaultFree(tree) /\ \A m \in mem \cup api : m[2]

\* the path goes through a member gdb marks artificial
ThroughArtificial(p) ==
    \E k \in 1..Len(p) :
        LET up == TypeAt(SubSeq(p, 1, k - 1)) IN
        /\ up.kind \in {"struct", "union"}
        /\ p[k] \in 1..Len(up.fields)
        /\ up.fields[p[k]].artificial

ThroughArtificialOf(kind, p) ==
    \E k \in 1..Len(p) :
        LET up == TypeAt(SubSeq(p, 1, k - 1)) IN
        /\ up.kind = kind
        /\ p[k] \in 1..Len(up.fields)
        /\ up.fields[p[k]].artificial

\* ------------------------------------------------------------- the claims

\* C1: a root value whose type holds N pointer-typed leaves (nested structs, every
\* alternative of a union, arrays of known length), every sub-value accessible: a
\* finished walk has printed N pointer lines and its total is N.
C1_LeafCount ==
    (pc = "done" /\ AllAccessible) =>
        /\ Cardinality(PtrLines) = PtrLeaves(tree)
        /\ count = PtrLeaves(tree)

\* What does hold of the walker for C1: the same count with the artificial
\* members of unions included, which the union loop does not skip.
C1_LeafCountAsWalked ==
    (pc = "done" /\ AllAccessible) =>
        /\ Cardinality(PtrLines) = LeavesAsWalked(tree)
        /\ count = LeavesAsWalked(tree)

\* C2: in every state of a walk the running count is the number of pointer lines
\* printed so far, whatever diagnostics were printed, and the total line of a
\* finished walk states that number.
C2_CountIsReports ==
    /\ InWalk => count = Cardinality(PtrLines)
    /\ pc = "done" => out[Len(out)] = TotalLine(Cardinality(PtrLines))

C2_Witness ==
    /\ pc = "done"
    /\ Cardinality(PtrLines) >= 2
    /\ Diagnostics # {}

\* C3: the lines come out in depth-first pre-order (members in declaration
\* order, elements by ascending index from 0, a member's whole subtree before
\* its next sibling) and the total line comes after every one of them. Before
\* is a strict total order of the paths, so each line preceding the next one in
\* it puts every earlier line before every later one.
C3_PreOrder ==
    /\ \A i \in DOMAIN out :
          i < Len(out) =>
              /\ out[i].kind # "total"
              /\ out[i + 1].kind # "total" => Before(out[i].path, out[i + 1].path)
    /\ pc = "done" => out[Len(out)].kind = "total"

\* the second element's subtree follows the whole of the first's
C3_Witness ==
    /\ pc = "done"
    /\ \E i, j, k \in Lines :
          /\ i < j /\ j < k
          /\ Len(out[i].path) = 2 /\ Len(out[j].path) = 2 /\ Len(out[k].path) = 2
          /\ out[i].path[1] = out[j].path[1]
          /\ out[j].path[1] < out[k].path[1]

\* C4: an array whose length is undetermined gets exactly one "length unknown"
\* line, nothing is counted for it and none of its elements is visited.
C4_UnknownLength ==
    InWalk =>
        \A c \in DOMAIN calls :
            LET p == calls[c] IN
            (TypeAt(p).kind = "array" /\ array_len(TypeAt(p)) = NoLength) =>
                /\ \E i \in Lines : LinesAt(p) = {i} /\ out[i] = UnknownLine(p)
                /\ \A i \in Lines : ~Below(p, out[i].path)
                /\ \A d \in DOMAIN calls : ~Below(p, calls[d])
                /\ count = Cardinality(PtrLines)

\* What does hold for C4: the same, for the arrays whose element type can be had.
C4_UnknownLengthWithTarget ==
    InWalk =>
        \A c \in DOMAIN calls :
            LET p == calls[c] IN
            (/\ TypeAt(p).kind = "array"
             /\ array_len(TypeAt(p)) = NoLength
             /\ ~TypeAt(p).targetFail) =>
                /\ \E i \in Lines : LinesAt(p) = {i} /\ out[i] = UnknownLine(p)
                /\ \A i \in Lines : ~Below(p, out[i].path)
                /\ \A d \in DOMAIN calls : ~Below(p, calls[d])
                /\ count = Cardinality(PtrLines)

\* the members the loop over the value at p, of type t, has dealt with so far:
\* all of them once the call returned
Dealt(p, t) ==
    LET first == IF t.kind = "array" THEN 0 ELSE 1
        n == IF t.kind = "array" THEN array_len(t) ELSE Len(t.fields)
        active == {i \in DOMAIN stack : stack[i].path = p}
    IN  IF active = {} THEN first..(first + n - 1)
        ELSE first..((stack[CHOOSE i \in active : TRUE].i) - 1)

\* _walk_value got into a loop over the value at p, of type t
Loops(p, t) ==
    \/ t.kind = "array" /\ array_len(t) # NoLength
    \/ t.kind \in {"struct", "union"} /\ <<p, TRUE>> \in api

MemberType(t, k) == IF t.kind = "array" THEN t.el ELSE t.fields[k].type

Skipped(t, k) == t.kind # "array" /\ SkipsArtificial(t, t.fields[k])

\* C5: a member or element that cannot be materialised gets exactly one
\* diagnostic line and is not counted, and every other member or element of the
\* same aggregate is dealt with as its own type and readability demand: a
\* pointer is reported once, an aggregate is walked.
C5_SiblingsSurvive ==
    (pc \in {"walking", "done"}) =>
        LET called == {calls[d] : d \in DOMAIN calls}
            reported == {out[i].path : i \in PtrLines}
            printed == {out[i].path : i \in Lines}
            failures == {out[i] : i \in Diagnostics}
        IN
        /\ count = Cardinality(PtrLines)
        /\ Cardinality(printed) = Cardinality(Lines)       \* one line a path
        /\ \A p \in called :
              LET t == TypeAt(p) IN
              Loops(p, t) =>
                \A k \in Dealt(p, t) :
                    LET q == p \o <<k>>
                        m == strip(MemberType(t, k))
                    IN
                    \/ Skipped(t, k)
                    \/ /\ Failed(q) /\ ~Read(q)
                       /\ (IF t.kind = "array" THEN ElemLine(q) ELSE FieldLine(q))
                             \in failures
                       /\ \A r \in printed : ~Below(q, r)
                       /\ \A r \in called : ~IsPrefix(q, r)
                    \/ /\ Read(q) /\ ~Failed(q)
                       /\ m.kind = "ptr" => q \in reported
                       /\ m.kind \in {"array", "struct", "union"} => q \in called

\* a pointer is reported after an earlier sibling could not be read
C5_Witness ==
    /\ pc = "done"
    /\ \E i \in Diagnostics, j \in PtrLines :
          /\ i < j
          /\ out[i].kind \in {"elem", "field"}
          /\ Len(out[i].path) = Len(out[j].path)
          /\ Parent(out[i].path) = Parent(out[j].path)

\* C6: only a failure on the root value aborts a walk, and then nothing is
\* printed; a failure on a nested sub-value is absorbed and the walk goes on to
\* its total.
C6_OnlyRootAborts ==
    /\ pc = "raised" => calls = << <<>> >> /\ out = <<>>
    /\ pc = "rejected" => out = <<>>

\* C7: a pointer is a terminal node: it is reported exactly once and nothing
\* behind it is visited; what the walk visits lies in the by-value containment
\* tree of the root, and no node is visited twice. NodeAt goes through elements
\* and members only: a path that has a type lies in that tree, and a path that
\* leads through a pointer has none.
C7_PointersTerminal ==
    InWalk =>
        LET called == {calls[d] : d \in DOMAIN calls}
            reported == {out[i].path : i \in PtrLines}
            printed == {out[i].path : i \in Lines}
        IN
        /\ Cardinality(called) = Len(calls)                \* no path called twice
        /\ Cardinality(printed) = Cardinality(Lines)       \* one line a path
        /\ \A p \in called \cup printed :
              LET t == NodeAt(tree, p) IN
              /\ t # Nowhere
              /\ (p \in called /\ is_ptr(t)) => p \in reported
              /\ p \in reported => is_ptr(t)
        /\ \A f \in DOMAIN stack :
              /\ stack[f].path \in called
              /\ stack[f].val = TypeAt(stack[f].path)
              /\ stack[f].val.kind \in {"array", "struct", "union"}

\* a pointer to a struct that itself holds a pointer was reported, and only it
C7_Witness ==
    /\ pc = "done"
    /\ \E i \in PtrLines :
          /\ TypeAt(out[i].path).pointee.kind = "struct"
          /\ Len(out[i].path) >= 1
    /\ count = 1

\* C8: a member flagged compiler-synthetic, of a struct or of a union, is never
\* reported, never walked, gets no diagnostic and adds nothing to the count.
C8_ArtificialSkipped ==
    InWalk =>
        /\ \A i \in Lines : ~ThroughArtificial(out[i].path)
        /\ \A c \in DOMAIN calls : ~ThroughArtificial(calls[c])

\* What does hold for C8: the same, for the members of structs.
C8_ArtificialSkippedInStructs ==
    InWalk =>
        /\ \A i \in Lines : ~ThroughArtificialOf("struct", out[i].path)
        /\ \A c \in DOMAIN calls : ~ThroughArtificialOf("struct", calls[c])

\* C9: a second run on the same unmodified root value, by a new enumerator or by
\* the same one, prints the same lines and the same total as the run before it.
C9_SecondRunSame ==
    (runs >= 2 /\ pc \in {"done", "raised", "rejected"}) =>
        /\ out = prev.out
        /\ pc = prev.pc
        /\ pc # "rejected" => count = prev.count

C9_Witness ==
    /\ runs >= 2
    /\ pc = "done"
    /\ count >= 2
    /\ Diagnostics # {}

\* C10: the driver runs the inputs in sorted order from start_index, stops with
\* status 1 at the first one that returns 42 and runs none after it, and exits 0
\* only when every input from start_index on was run and none returned 42; a
\* timeout does not stop it.
C10_StopsAtFirstError ==
    /\ \A i \in DOMAIN ran : ran[i] = sorted(files)[start_index + i]
    /\ \A i \in DOMAIN ran : i > 1 => ran[i - 1] < ran[i]
    /\ Len(results) = Len(ran)
    /\ \A i \in DOMAIN results :
          results[i] = Returned(ErrorExitcode) => i = Len(results) /\ bpc = "exit1"
    /\ \A i \in DOMAIN results :
          (results[i] = TimeoutExpired /\ bpc = "exit1") => i < Len(results)
    /\ bpc = "exit0" =>
          /\ Len(ran) = Len(files) - start_index
          /\ \A i \in DOMAIN results : results[i] # Returned(ErrorExitcode)

\* a timeout, then an input that returns 42: status 1 with an input left unrun
C10_Witness ==
    /\ bpc = "exit1"
    /\ Len(results) = 2
    /\ results[1] = TimeoutExpired
    /\ results[2] = Returned(ErrorExitcode)
    /\ start_index + 2 < Len(files)
    /\ files # sorted(files)

====
